---- MODULE Spec2Model ----
(***************************************************************************)
(* Model of the asynchronous job service: the job queue manager            *)
(* (src/src/queue/jobQueueManager.js), the task processor                  *)
(* (src/unnamed/part_003), the job domain functions (src/unnamed/part_002) *)
(* and the job routes (src/src/api/jobRoutes.js).                          *)
(*                                                                         *)
(* Time is in milliseconds.  Date values are integers (the epoch value);   *)
(* toISOString / new Date(string) round-trip an integral millisecond       *)
(* value unchanged, so timestamps are carried as integers.                 *)
(* JavaScript `undefined` (an absent field) is the value Undefined for     *)
(* numeric fields and the string "absent" for string fields.               *)
(* Fields no modelled decision reads (createdAt, updatedAt, queuedAt,      *)
(* lastError, cancellation, retryInfo, timestamps) are left out.           *)
(*                                                                         *)
(* Spec and SystemSpec follow the queue and the routes and keep of         *)
(* processJob its snapshots and its outcome.  TaskSpec follows one         *)
(* invocation of processJob from await to await, with the payload fields   *)
(* and the result of processPdfJob; LimiterSpec follows a RateLimiter      *)
(* (src/src/integration/documentIntegration.js).  LiveSpec is the queue    *)
(* manager under a timer that keeps firing, with fairness of the tick, of  *)
(* the processor's steps and of the clock.                                 *)
(***************************************************************************)
EXTENDS Integers, Sequences, FiniteSets, TLC

VARIABLES
    jobQueue,       \* jobQueueManager.js:7   the array of queued jobs
    isProcessing,   \* jobQueueManager.js:8   the in-flight flag
    taskProcessor,  \* jobQueueManager.js:9   "null" or the processor
    checkInterval,  \* jobQueueManager.js:10  "null" or the timer handle
    timers,         \* number of live setInterval timers
    running,        \* outstanding taskProcessor invocations (promises)
    jobStore,       \* jobRoutes.js:13  the in-memory Map id -> job
    saved,          \* last snapshot handed to saveJob, per job id
    now,            \* the clock (Date.now())
    nextId,         \* next id generateId hands out
    nextSeq,        \* insertion counter (ghost: order of addJob calls)
    ev,             \* outcome of the last queue-manager step (ghost)
    backoff,        \* an evaluation of calculateBackoff: its inputs and result
    task,           \* an invocation of processJob followed on its own
    limiter         \* a RateLimiter, its clock and its last call to execute

vars == <<jobQueue, isProcessing, taskProcessor, checkInterval, timers,
          running, jobStore, saved, now, nextId, nextSeq, ev, backoff, task,
          limiter>>

----------------------------------------------------------------------------
(* Bounds *)

NumJobs == 2
MaxAdds == 2
MaxClock == 1
MaxRetryCount == 8
MaxCalls == 6
MaxAdvances == 2

(* Program constants *)

Undefined == -1
baseDelay == 1000
maxDelay == 60000
DefaultMaxRetries == 3
DefaultMaxRequests == 10
DefaultTimeWindow == 60000

ClockStep == baseDelay

JobIds == 1..NumJobs

Min(a, b) == IF a <= b THEN a ELSE b

RECURSIVE Pow2(_)
Pow2(n) == IF n <= 0 THEN 1 ELSE 2 * Pow2(n - 1)

----------------------------------------------------------------------------
(* JavaScript operators on possibly-undefined numbers *)

\* a < b : any comparison with undefined (NaN) is false
JsLess(a, b) == a # Undefined /\ b # Undefined /\ a < b

\* a || d : undefined and 0 are falsy
JsOr(a, d) == IF a = Undefined \/ a = 0 THEN d ELSE a

----------------------------------------------------------------------------
(* Errors: message is a sequence of phrases, String.includes(sig) is       *)
(* membership of sig among the phrases.                                    *)

NoError == [message |-> <<>>, code |-> "none"]
ErrUnsupported == [message |-> <<"Unsupported job type">>, code |-> "none"]
ErrMissingUrl == [message |-> <<"Missing documentUrl">>, code |-> "none"]
ErrFetchTimeout == [message |-> <<"connect", "ETIMEDOUT">>, code |-> "ETIMEDOUT"]

Includes(message, sig) == \E i \in 1..Len(message) : message[i] = sig

isTransientError(error) ==
    \/ Includes(error.message, "Rate limit exceeded")
    \/ error.code \in {"ETIMEDOUT", "ECONNRESET", "ECONNREFUSED"}
    \/ Includes(error.message, "timeout")

----------------------------------------------------------------------------
(* Jobs *)

NoJob == [id |-> 0, type |-> "absent", status |-> "absent",
          retries |-> Undefined, maxRetries |-> Undefined,
          scheduledFor |-> Undefined, seq |-> 0, error |-> NoError]

\* The request bodies the model submits.
Submissions ==
    { [type |-> "pdf-processing", status |-> "absent", scheduledFor |-> Undefined,
       retries |-> Undefined, maxRetries |-> Undefined],
      [type |-> "pdf-processing", status |-> "absent", scheduledFor |-> Undefined,
       retries |-> 0, maxRetries |-> 1],
      [type |-> "unknown-type", status |-> "absent", scheduledFor |-> baseDelay,
       retries |-> 0, maxRetries |-> 0],
      [type |-> "pdf-processing", status |-> "failed", scheduledFor |-> Undefined,
       retries |-> Undefined, maxRetries |-> Undefined] }

\* { id, status: 'pending', ...jobData }: the spread of jobData comes last
createJob(id, jobData) ==
    [NoJob EXCEPT !.id = id,
                  !.status = IF jobData.status = "absent" THEN "pending"
                             ELSE jobData.status,
                  !.type = jobData.type,
                  !.scheduledFor = jobData.scheduledFor,
                  !.retries = jobData.retries,
                  !.maxRetries = jobData.maxRetries]

\* The jobs a caller of the handle passes to addJob.
JobInputs ==
    { createJob(id, jobData) :
        id \in JobIds,
        jobData \in { d \in Submissions : d.status = "absent" } }

\* an update that builds the new job from the status alone
StatusAlone(job, newStatus) == [NoJob EXCEPT !.status = newStatus]

\* { ...job, status: newStatus, updatedAt }
updateJobStatus(job, newStatus) == [job EXCEPT !.status = newStatus]

\* What the model keeps of a snapshot handed to saveJob: the queue's
\* bookkeeping fields are dropped.
Snapshot(job) == [job EXCEPT !.scheduledFor = Undefined, !.seq = 0]

----------------------------------------------------------------------------
(* Queue manager helpers *)

\* Insert e after every element whose key is <= e's key (stable).
RECURSIVE InsertSorted(_, _)
InsertSorted(e, s) ==
    IF s = <<>> THEN <<e>>
    ELSE IF Head(s).scheduledFor <= e.scheduledFor
         THEN <<Head(s)>> \o InsertSorted(e, Tail(s))
         ELSE <<e>> \o s

RECURSIVE SortFrom(_, _)
SortFrom(q, acc) ==
    IF q = <<>> THEN acc ELSE SortFrom(Tail(q), InsertSorted(Head(q), acc))

UnsortedQueue(q) == q

\* jobQueue.sort((a, b) => new Date(a.scheduledFor) - new Date(b.scheduledFor))
SortQueue(q) == SortFrom(q, <<>>)

AlwaysDue(job, t) == TRUE

\* new Date(nextJob.scheduledFor) <= now
IsDue(job, t) == job.scheduledFor <= t

\* a tick that empties the queue when it takes a job
DropQueue(q, nextJob) == <<>>

\* jobQueue.filter(job => job.id !== nextJob.id)
RemoveJob(q, nextJob) == SelectSeq(q, LAMBDA job : job.id # nextJob.id)

IdleOnlyOnEmpty(busy, proc, q) == proc = "null" \/ Len(q) = 0

\* if (isProcessing || !taskProcessor || jobQueue.length === 0) return
TickReturnsEarly(busy, proc, q) == busy \/ proc = "null" \/ Len(q) = 0

UncappedBackoff(retryCount, jitter) == Pow2(retryCount) * baseDelay + jitter

\* Math.min(maxDelay, Math.pow(2, retryCount) * baseDelay + Math.random() * 1000)
calculateBackoff(retryCount, jitter) ==
    Min(maxDelay, Pow2(retryCount) * baseDelay + jitter)

\* nextJob.retries < (nextJob.maxRetries || 3)
ShouldRequeue(nextJob) ==
    JsLess(nextJob.retries, JsOr(nextJob.maxRetries, DefaultMaxRetries))

\* the queuedJob addJob pushes: { ...job, scheduledFor: job.scheduledFor || now }
QueuedJob(job, t, seq) ==
    [job EXCEPT !.scheduledFor = IF job.scheduledFor = Undefined THEN t
                                 ELSE job.scheduledFor,
                !.seq = seq]

----------------------------------------------------------------------------
(* Documents.  A documentUrl is the sequence of its '/'-separated segments, *)
(* a segment the sequence of its '.'-separated parts; <<>> is an absent or  *)
(* empty documentUrl.                                                       *)

DocumentUrls ==
    { << <<"docs">>, <<"report", "pdf">> >>,
      << <<"notes">> >>,
      << <<"a", "b">>, <<"archive", "tar", "gz">> >> }

\* documentUrl.split('/').pop().replace(/\.[^/.]+$/, '')
fetchDocument(documentUrl) ==
    LET last == documentUrl[Len(documentUrl)]
        documentId == IF Len(last) > 1 /\ last[Len(last)] # ""
                      THEN SubSeq(last, 1, Len(last) - 1)
                      ELSE last
    IN  [id |-> documentId, extractedText |-> "absent",
         geminiAnalysis |-> "absent", analysis |-> "absent"]

NoDocument ==
    [id |-> <<>>, extractedText |-> "absent", geminiAnalysis |-> "absent",
     analysis |-> "absent"]

\* the fetched document always has content
extractTextFromDocument(document) ==
    [document EXCEPT !.extractedText = "Simulated extraction"]

analyzeDocument(documentWithText) ==
    [documentWithText EXCEPT
       !.analysis = IF documentWithText.extractedText \in {"absent", ""}
                    THEN "failed" ELSE "simulated"]

\* The ways callGeminiForAnalysis settles: its result, or the error thrown
\* by the rate limiter or by the analysis itself.
ErrRateLimit == [message |-> <<"Rate limit exceeded", "Try again in">>, code |-> "none"]
ErrAnalysis == [message |-> <<"analysis failed">>, code |-> "none"]
GeminiOutcomes == {NoError, ErrRateLimit, ErrAnalysis}

\* step 3 without its try/catch: the error of the analysis propagates
AnalyzeUncaught(documentWithText, analyzeContent, gemini) ==
    IF ~analyzeContent
    THEN [error |-> NoError, processedDocument |-> documentWithText]
    ELSE IF gemini = NoError
    THEN [error |-> NoError,
          processedDocument |->
            analyzeDocument([documentWithText EXCEPT !.geminiAnalysis = "result"])]
    ELSE [error |-> gemini, processedDocument |-> documentWithText]

\* processPdfJob step 3: the error processPdfJob raises (none) and the
\* processed document
Analyze(documentWithText, analyzeContent, gemini) ==
    IF ~analyzeContent
    THEN [error |-> NoError, processedDocument |-> documentWithText]
    ELSE IF gemini = NoError
    THEN [error |-> NoError,
          processedDocument |->
            analyzeDocument([documentWithText EXCEPT !.geminiAnalysis = "result"])]
    ELSE [error |-> NoError, processedDocument |-> analyzeDocument(documentWithText)]

NoResult == [documentId |-> <<>>, extractedText |-> "absent", analysis |-> "absent"]

\* a result that drops the document id
ResultWithoutId(document, processedDocument) ==
    [documentId |-> <<>>,
     extractedText |-> processedDocument.extractedText,
     analysis |-> processedDocument.analysis]

\* processPdfJob step 4: the result object (processedAt left out)
AssembleResult(document, processedDocument) ==
    [documentId |-> document.id,
     extractedText |-> processedDocument.extractedText,
     analysis |-> processedDocument.analysis]

----------------------------------------------------------------------------
(* processJob followed on its own: the job it is given, with the fields of *)
(* the payload processPdfJob reads.                                        *)

\* an error object without a message property
UndefinedMessage == <<"(undefined)">>
ErrNoMessage == [message |-> UndefinedMessage, code |-> "EACCES"]
ErrTypeError == [message |-> <<"Cannot read properties of undefined">>, code |-> "none"]
ErrNotify == [message |-> <<"notification failed">>, code |-> "none"]

TransientCodes == {"ETIMEDOUT", "ECONNRESET", "ECONNREFUSED"}

\* isTransientError itself throws: error.message.includes on an undefined
\* message, reached when none of the three codes matched
isTransientErrorThrows(error) ==
    /\ error.message = UndefinedMessage
    /\ error.code \notin TransientCodes

NoErrorInfo == [message |-> <<>>, code |-> "none", isTransient |-> FALSE]

\* { message, code: error.code || 'UNKNOWN_ERROR', isTransient, timestamp }
ErrorInfo(error) ==
    [message |-> error.message,
     code |-> IF error.code = "none" THEN "UNKNOWN_ERROR" ELSE error.code,
     isTransient |-> isTransientError(error)]

TaskJobs ==
    { [id |-> 1, type |-> type, status |-> "pending", retries |-> retries,
       maxRetries |-> maxRetries, documentUrl |-> documentUrl,
       analyzeContent |-> analyzeContent, error |-> NoErrorInfo,
       result |-> NoResult] :
        type \in {"pdf-processing", "unknown-type"},
        retries \in {Undefined, 0, 1},
        maxRetries \in {Undefined, 1},
        documentUrl \in DocumentUrls \cup {<<>>},
        analyzeContent \in BOOLEAN }

NoTaskJob ==
    [id |-> 0, type |-> "absent", status |-> "absent", retries |-> Undefined,
     maxRetries |-> Undefined, documentUrl |-> <<>>, analyzeContent |-> TRUE,
     error |-> NoErrorInfo, result |-> NoResult]

\* a processJob that saves the job as it was handed over
SnapshotAsGiven(job) == job

\* updateJobStatus(job, 'processing'), the first snapshot of processJob
ProcessingSnapshot(job) == updateJobStatus(job, "processing")

\* the snapshot the catch block builds
JobWithError(job, error) ==
    [updateJobStatus(job, IF isTransientError(error) THEN "retry" ELSE "failed")
       EXCEPT !.error = ErrorInfo(error)]

NewTask(job) ==
    [job |-> job, pc |-> "start", updatedJob |-> job, document |-> NoDocument,
     fetched |-> "no", gemini |-> "no", error |-> NoError,
     store |-> NoTaskJob, notified |-> NoTaskJob, firebaseFailed |-> FALSE,
     returned |-> NoTaskJob, thrown |-> NoError, requeued |-> FALSE]

IdleTask == [NewTask(NoTaskJob) EXCEPT !.pc = "idle"]

----------------------------------------------------------------------------
(* RateLimiter (documentIntegration.js:7-37) *)

\* the options of geminiApiLimiter, a smaller bucket, and no options at all
RateLimiterOptions ==
    { [maxRequests |-> 5, perTimeWindow |-> 60000],
      [maxRequests |-> 2, perTimeWindow |-> 60000],
      [maxRequests |-> Undefined, perTimeWindow |-> Undefined] }

\* constructor(options), called at time t
NewRateLimiter(options, t) ==
    [maxTokens |-> JsOr(options.maxRequests, DefaultMaxRequests),
     refillRate |-> JsOr(options.perTimeWindow, DefaultTimeWindow),
     tokens |-> JsOr(options.maxRequests, DefaultMaxRequests),
     lastRefill |-> t]

\* Math.ceil(a / b) for b > 0
CeilDiv(a, b) == -((-a) \div b)

\* a refill that fills the bucket as soon as any time has passed
RefillOnAnyElapsed(rl, t) ==
    IF t - rl.lastRefill > 0
    THEN [rl EXCEPT !.tokens = rl.maxTokens, !.lastRefill = t]
    ELSE rl

\* execute, lines 17-24: the refill
Refill(rl, t) ==
    LET elapsed == t - rl.lastRefill
        tokensToAdd == (elapsed \div rl.refillRate) * rl.maxTokens
    IN  IF elapsed > 0
        THEN [rl EXCEPT !.tokens = Min(rl.maxTokens, rl.tokens + tokensToAdd),
                        !.lastRefill = t]
        ELSE rl

\* an execute whose admitted call leaves the token in the bucket
ExecuteWithoutConsume(rl, t) ==
    LET elapsed == t - rl.lastRefill
        refilled == Refill(rl, t)
    IN  IF refilled.tokens < 1
        THEN [rl |-> refilled, outcome |-> "RateLimitExceeded",
              waitTime |-> CeilDiv(rl.refillRate - elapsed, 1000)]
        ELSE [rl |-> refilled, outcome |-> "invoked", waitTime |-> 0]

\* an execute that never rejects
ExecuteUnlimited(rl, t) ==
    [rl |-> [Refill(rl, t) EXCEPT !.tokens = @ - 1], outcome |-> "invoked",
     waitTime |-> 0]

\* execute(fn) called at time t, up to the call of fn: the limiter after the
\* call, whether fn was invoked, and the seconds the error message names
Execute(rl, t) ==
    LET elapsed == t - rl.lastRefill
        refilled == Refill(rl, t)
    IN  IF refilled.tokens < 1
        THEN [rl |-> refilled, outcome |-> "RateLimitExceeded",
              waitTime |-> CeilDiv(rl.refillRate - elapsed, 1000)]
        ELSE [rl |-> [refilled EXCEPT !.tokens = @ - 1], outcome |-> "invoked",
              waitTime |-> 0]

\* geminiApiLimiter as the module creates it
IdleLimiter ==
    [rl |-> NewRateLimiter([maxRequests |-> 5, perTimeWindow |-> 60000], 0),
     clock |-> 0, advances |-> 0, inflight |-> 0, history |-> <<>>]

----------------------------------------------------------------------------
(* State after the modules are loaded, before bootstrap runs *)

InitState ==
    /\ jobQueue = <<>>
    /\ isProcessing = FALSE
    /\ taskProcessor = "null"
    /\ checkInterval = "null"
    /\ timers = 0
    /\ running = <<>>
    /\ jobStore = [id \in JobIds |-> NoJob]
    /\ saved = [id \in JobIds |-> NoJob]
    /\ now = 0
    /\ nextId = 1
    /\ nextSeq = 1
    /\ ev = "other"

NoBackoff == [retryCount |-> 0, jitter |-> 0, delay |-> Undefined]

Init ==
    /\ InitState
    /\ backoff = NoBackoff
    /\ task = IdleTask
    /\ limiter = IdleLimiter

\* The handle {addJob, getQueueLength, shutdown} and the routes exist once
\* initialize has returned (part_000:25-45).
Bootstrapped == taskProcessor # "null"

RemoveAt(s, i) == SubSeq(s, 1, i - 1) \o SubSeq(s, i + 1, Len(s))

----------------------------------------------------------------------------
(* Queue manager *)

\* an initialize that takes every call for the first
AlwaysNoInterval(handle) == TRUE

\* !checkInterval
NoInterval(handle) == handle = "null"

\* initialize(processor, options)
Initialize(callable) ==
    /\ IF ~callable
       THEN /\ UNCHANGED <<taskProcessor, checkInterval, timers>>
            /\ ev' = "other"
       ELSE /\ taskProcessor' = "processJob"
            /\ IF NoInterval(checkInterval)
               THEN checkInterval' = "timer" /\ timers' = timers + 1
               ELSE UNCHANGED <<checkInterval, timers>>
            /\ ev' = "other"
    /\ UNCHANGED <<backoff, task, limiter, jobQueue, isProcessing, running, jobStore, saved, now,
                   nextId, nextSeq>>

\* a shutdown that forgets the handle and leaves the timer running
IntervalKept(n) == n

\* clearInterval(checkInterval): one live timer less
clearInterval(n) == n - 1

\* shutdown()
Shutdown ==
    /\ Bootstrapped
    /\ IF checkInterval # "null"
       THEN /\ checkInterval' = "null"
            /\ timers' = clearInterval(timers)
            /\ ev' = "other"
       ELSE /\ UNCHANGED <<checkInterval, timers>>
            /\ ev' = "other"
    /\ UNCHANGED <<backoff, task, limiter, jobQueue, isProcessing, taskProcessor, running, jobStore,
                   saved, now, nextId, nextSeq>>

\* an addJob without its check
AnyJobIsValid(job) == TRUE

\* the negation of (!job || !job.id); NoJob stands for a missing job and id 0
\* for a missing id
IsValidJob(job) == job # NoJob /\ job.id # 0

\* what callers of the handle pass to addJob besides jobs: nothing, and a
\* job without an id
InvalidJobs == {NoJob} \cup { [job EXCEPT !.id = 0] : job \in JobInputs }

\* addJob(job), called through the handle initialize returned
AddJob(job) ==
    /\ Bootstrapped
    /\ IF ~IsValidJob(job)
       THEN UNCHANGED <<jobQueue, nextSeq>>
       ELSE /\ nextSeq <= MaxAdds
            /\ jobQueue' = Append(jobQueue, QueuedJob(job, now, nextSeq))
            /\ nextSeq' = nextSeq + 1
    /\ ev' = "other"
    /\ UNCHANGED <<backoff, task, limiter, isProcessing, taskProcessor, checkInterval, timers,
                   running, jobStore, saved, now, nextId>>

\* processNextJob, from the timer's callback up to `await taskProcessor(nextJob)`;
\* the processor (processJob, part_003:16-23) runs synchronously up to its
\* first await, after handing the 'processing' snapshot to saveJob.
Tick ==
    /\ timers > 0
    /\ IF TickReturnsEarly(isProcessing, taskProcessor, jobQueue)
       THEN /\ ev' = "tick-idle"
            /\ UNCHANGED <<jobQueue, isProcessing, running, saved>>
       ELSE LET sorted == SortQueue(jobQueue)
                nextJob == sorted[1]
            IN  IF IsDue(nextJob, now)
                THEN /\ isProcessing' = TRUE
                     /\ jobQueue' = RemoveJob(sorted, nextJob)
                     /\ running' = Append(running,
                            [job |-> nextJob, pc |-> "pipeline", error |-> NoError])
                     /\ saved' = [saved EXCEPT ![nextJob.id] =
                                     Snapshot(updateJobStatus(nextJob, "processing"))]
                     /\ ev' = "tick-started"
                ELSE /\ jobQueue' = sorted
                     /\ ev' = "tick-notdue"
                     /\ UNCHANGED <<isProcessing, running, saved>>
    /\ UNCHANGED <<backoff, task, limiter, taskProcessor, checkInterval, timers, jobStore, now,
                   nextId, nextSeq>>

\* The errors the dispatch and the pipeline of a job can raise (NoError: none).
PipelineOutcomes(job) ==
    IF job.type = "pdf-processing"
    THEN {NoError, ErrMissingUrl, ErrFetchTimeout}
    ELSE {ErrUnsupported}

\* processJob from the type dispatch to the save of the final snapshot
Pipeline(i) ==
    /\ i \in 1..Len(running)
    /\ running[i].pc = "pipeline"
    /\ \E error \in PipelineOutcomes(running[i].job) :
         LET job == running[i].job
             updatedJob == updateJobStatus(job, "processing")
             retryStatus == IF isTransientError(error) THEN "retry" ELSE "failed"
             jobWithError == [updateJobStatus(job, retryStatus) EXCEPT !.error = error]
         IN  /\ saved' = [saved EXCEPT ![job.id] =
                            IF error = NoError
                            THEN Snapshot(updateJobStatus(updatedJob, "completed"))
                            ELSE Snapshot(jobWithError)]
             /\ running' = [running EXCEPT ![i].pc = "settling", ![i].error = error]
             /\ ev' = "pipeline"
    /\ UNCHANGED <<backoff, task, limiter, jobQueue, isProcessing, taskProcessor, checkInterval, timers,
                   jobStore, now, nextId, nextSeq>>

RequeueJitter == {0, 999}

\* processNextJob after `await taskProcessor(nextJob)` settles: catch and finally
Settle(i) ==
    /\ i \in 1..Len(running)
    /\ running[i].pc = "settling"
    /\ LET nextJob == running[i].job
           error == running[i].error
       IN  IF error # NoError /\ ShouldRequeue(nextJob)
           THEN /\ nextSeq <= MaxAdds
                /\ \E jitter \in RequeueJitter :
                     LET retryDelay == calculateBackoff(JsOr(nextJob.retries, 0), jitter)
                         retryTime == now + retryDelay
                         retryJob == [nextJob EXCEPT
                                        !.retries = JsOr(nextJob.retries, 0) + 1,
                                        !.scheduledFor = retryTime]
                     IN  jobQueue' = Append(jobQueue, QueuedJob(retryJob, now, nextSeq))
                /\ nextSeq' = nextSeq + 1
                /\ ev' = "settle-requeued"
           ELSE /\ UNCHANGED <<jobQueue, nextSeq>>
                /\ ev' = IF error = NoError THEN "settle-ok" ELSE "settle-dropped"
    /\ isProcessing' = FALSE
    /\ running' = RemoveAt(running, i)
    /\ UNCHANGED <<backoff, task, limiter, taskProcessor, checkInterval, timers, jobStore, saved, now,
                   nextId>>

----------------------------------------------------------------------------
(* Routes *)

\* findJobById: fetchJobFromFirebase always resolves to null
\* (part_001:56-80), so the lookup is jobStore.get(jobId) || null
findJobById(id) == jobStore[id]

\* GET /api/v1/jobs/:jobId/status: the status of the response (404 when the
\* lookup finds nothing)
StatusResponse(id) ==
    IF findJobById(id) = NoJob THEN "404" ELSE findJobById(id).status

\* POST /api/v1/jobs
Submit(jobData) ==
    /\ Bootstrapped
    /\ nextId <= NumJobs
    /\ LET newJob == createJob(nextId, jobData)
       IN  /\ saved' = [saved EXCEPT ![nextId] = Snapshot(newJob)]
           /\ jobStore' = [jobStore EXCEPT ![nextId] = newJob]
           /\ ev' = "other"
    /\ nextId' = nextId + 1
    /\ UNCHANGED <<backoff, task, limiter, jobQueue, isProcessing, taskProcessor, checkInterval, timers,
                   running, now, nextSeq>>

\* DELETE /api/v1/jobs/:jobId
Cancel(id) ==
    /\ Bootstrapped
    /\ LET job == findJobById(id)
       IN  IF job = NoJob
           THEN /\ ev' = "other"
                /\ UNCHANGED <<jobStore, saved>>
           ELSE IF job.status # "pending"
           THEN /\ ev' = "other"
                /\ UNCHANGED <<jobStore, saved>>
           ELSE LET cancelledJob == updateJobStatus(job, "cancelled")
                IN  /\ saved' = [saved EXCEPT ![id] = Snapshot(cancelledJob)]
                    /\ jobStore' = [jobStore EXCEPT ![id] = cancelledJob]
                    /\ ev' = "other"
    /\ UNCHANGED <<backoff, task, limiter, jobQueue, isProcessing, taskProcessor, checkInterval, timers,
                   running, now, nextId, nextSeq>>

\* a retry route that accepts a pending job as well
RetryAlsoPending == {"failed", "retry", "pending"}

retryableStatuses == {"failed", "retry"}

\* PUT /api/v1/jobs/:jobId/retry
ManualRetry(id) ==
    /\ Bootstrapped
    /\ LET job == findJobById(id)
       IN  IF job = NoJob
           THEN /\ ev' = "other"
                /\ UNCHANGED <<jobStore, saved, jobQueue, nextSeq>>
           ELSE IF job.status \notin retryableStatuses
           THEN /\ ev' = "other"
                /\ UNCHANGED <<jobStore, saved, jobQueue, nextSeq>>
           ELSE LET resetJob == [job EXCEPT !.status = "pending", !.retries = 0,
                                            !.error = NoError]
                    retriedJob == updateJobStatus(resetJob, "pending")
                IN  /\ nextSeq <= MaxAdds
                    /\ saved' = [saved EXCEPT ![id] = Snapshot(retriedJob)]
                    /\ jobStore' = [jobStore EXCEPT ![id] = retriedJob]
                    /\ jobQueue' = Append(jobQueue, QueuedJob(retriedJob, now, nextSeq))
                    /\ nextSeq' = nextSeq + 1
                    /\ ev' = "other"
    /\ UNCHANGED <<backoff, task, limiter, isProcessing, taskProcessor, checkInterval, timers,
                   running, now, nextId>>

----------------------------------------------------------------------------
(* The clock *)

AdvanceClock ==
    /\ now + ClockStep <= MaxClock * ClockStep
    /\ now' = now + ClockStep
    /\ ev' = "other"
    /\ UNCHANGED <<backoff, task, limiter, jobQueue, isProcessing, taskProcessor, checkInterval, timers,
                   running, jobStore, saved, nextId, nextSeq>>

\* The queue manager and the task processor, driven through the handle.
Next ==
    \/ \E callable \in BOOLEAN : Initialize(callable)
    \/ Shutdown
    \/ \E job \in JobInputs \cup InvalidJobs : AddJob(job)
    \/ Tick
    \/ \E i \in 1..Len(running) : Pipeline(i)
    \/ \E i \in 1..Len(running) : Settle(i)
    \/ AdvanceClock

Spec == Init /\ [][Next]_vars

\* The whole service: the routes are the only callers of the handle.
SystemNext ==
    \/ \E callable \in BOOLEAN : Initialize(callable)
    \/ Shutdown
    \/ Tick
    \/ \E i \in 1..Len(running) : Pipeline(i)
    \/ \E i \in 1..Len(running) : Settle(i)
    \/ \E jobData \in Submissions : Submit(jobData)
    \/ \E id \in JobIds : Cancel(id)
    \/ \E id \in JobIds : ManualRetry(id)
    \/ AdvanceClock

SystemSpec == Init /\ [][SystemNext]_vars

----------------------------------------------------------------------------
(* calculateBackoff on its own: every retry count up to MaxRetryCount and  *)
(* sampled values of Math.random() * 1000.                                 *)

JitterSamples == {0, 1, 250, 500, 998, 999}

BackoffInit ==
    /\ InitState
    /\ backoff \in [retryCount : 0..MaxRetryCount, jitter : JitterSamples,
                    delay : {Undefined}]
    /\ task = IdleTask
    /\ limiter = IdleLimiter

ComputeBackoff ==
    /\ backoff.delay = Undefined
    /\ backoff' = [backoff EXCEPT
                     !.delay = calculateBackoff(backoff.retryCount, backoff.jitter)]
    /\ UNCHANGED <<task, limiter, jobQueue, isProcessing, taskProcessor,
                   checkInterval, timers, running, jobStore, saved, now, nextId,
                   nextSeq, ev>>

BackoffNext == ComputeBackoff

BackoffSpec == BackoffInit /\ [][BackoffNext]_vars

----------------------------------------------------------------------------
(* processJob on its own: one invocation, followed from await to await,    *)
(* and the catch of processNextJob that receives its outcome.              *)

serviceVars == <<jobQueue, isProcessing, taskProcessor, checkInterval, timers,
                 running, jobStore, saved, now, nextId, nextSeq, ev>>

\* saveJob resolves to the job it was given, through Firestore or, when
\* saveJobToFirebase throws, through the fallback of its catch block
saveJob(job, firebaseFails) == job

\* notifyJobStatusChange as the source has it: it always resolves
Notifier == {"ack"}

\* a notifier whose call to the external system can be rejected
FaultyNotifier == {"ack", "fails"}

\* the errors fetchDocument can raise (NoError: it resolves)
FetchOutcomes == {NoError, ErrFetchTimeout, ErrNoMessage}

TaskInit ==
    /\ InitState
    /\ backoff = NoBackoff
    /\ limiter = IdleLimiter
    /\ task \in { NewTask(job) : job \in TaskJobs }

\* lines 21-22: updateJobStatus(job, 'processing'); await saveJob(updatedJob)
SaveProcessing ==
    /\ task.pc = "start"
    /\ \E firebaseFails \in BOOLEAN :
         LET updatedJob == ProcessingSnapshot(task.job)
         IN  task' = [task EXCEPT !.updatedJob = updatedJob,
                                  !.store = saveJob(updatedJob, firebaseFails),
                                  !.firebaseFailed = @ \/ firebaseFails,
                                  !.pc = "notify-processing"]
    /\ UNCHANGED <<serviceVars, backoff, limiter>>

\* line 23: await notifyJobStatusChange(updatedJob)
NotifyProcessing(notifier) ==
    /\ task.pc = "notify-processing"
    /\ \E outcome \in notifier :
         task' = IF outcome = "ack"
                 THEN [task EXCEPT !.notified = task.updatedJob, !.pc = "dispatch"]
                 ELSE [task EXCEPT !.error = ErrNotify, !.pc = "catch"]
    /\ UNCHANGED <<serviceVars, backoff, limiter>>

\* lines 26-32 and 75-77: the switch on job.type and the documentUrl check
Dispatch ==
    /\ task.pc = "dispatch"
    /\ task' = IF task.job.type # "pdf-processing"
               THEN [task EXCEPT !.error = ErrUnsupported, !.pc = "catch"]
               ELSE IF task.updatedJob.documentUrl = <<>>
               THEN [task EXCEPT !.error = ErrMissingUrl, !.pc = "catch"]
               ELSE [task EXCEPT !.pc = "fetch"]
    /\ UNCHANGED <<serviceVars, backoff, limiter>>

\* lines 81-85: await fetchDocument(job.documentUrl); extractTextFromDocument
Fetch ==
    /\ task.pc = "fetch"
    /\ \E outcome \in FetchOutcomes :
         task' = IF outcome = NoError
                 THEN [task EXCEPT
                         !.document = extractTextFromDocument(
                                        fetchDocument(task.updatedJob.documentUrl)),
                         !.fetched = "ok",
                         !.pc = "analyze"]
                 ELSE [task EXCEPT !.fetched = "failed", !.error = outcome,
                                   !.pc = "catch"]
    /\ UNCHANGED <<serviceVars, backoff, limiter>>

\* lines 88-116 and 35: the analysis, the result, updateJobStatus 'completed'
AnalyzeAndAssemble ==
    /\ task.pc = "analyze"
    /\ \E gemini \in (IF task.updatedJob.analyzeContent THEN GeminiOutcomes
                      ELSE {NoError}) :
         LET analyzed == Analyze(task.document, task.updatedJob.analyzeContent, gemini)
             withResult == [task.updatedJob EXCEPT
                              !.result = AssembleResult(task.document,
                                                        analyzed.processedDocument)]
             called == IF ~task.updatedJob.analyzeContent THEN "skipped"
                       ELSE IF gemini = NoError THEN "ok" ELSE "failed"
         IN  task' = IF analyzed.error # NoError
                     THEN [task EXCEPT !.gemini = called, !.error = analyzed.error,
                                       !.pc = "catch"]
                     ELSE [task EXCEPT
                             !.gemini = called,
                             !.updatedJob = updateJobStatus(withResult, "completed"),
                             !.pc = "save-completed"]
    /\ UNCHANGED <<serviceVars, backoff, limiter>>

\* line 36: await saveJob(updatedJob)
SaveCompleted ==
    /\ task.pc = "save-completed"
    /\ \E firebaseFails \in BOOLEAN :
         task' = [task EXCEPT !.store = saveJob(task.updatedJob, firebaseFails),
                              !.firebaseFailed = @ \/ firebaseFails,
                              !.pc = "notify-completed"]
    /\ UNCHANGED <<serviceVars, backoff, limiter>>

\* lines 37-40: await notifyJobStatusChange(updatedJob); return updatedJob
NotifyCompleted(notifier) ==
    /\ task.pc = "notify-completed"
    /\ \E outcome \in notifier :
         task' = IF outcome = "ack"
                 THEN [task EXCEPT !.notified = task.updatedJob,
                                   !.returned = task.updatedJob,
                                   !.pc = "returned"]
                 ELSE [task EXCEPT !.error = ErrNotify, !.pc = "catch"]
    /\ UNCHANGED <<serviceVars, backoff, limiter>>

\* lines 42-61: the catch block up to await saveJob(jobWithError)
Catch ==
    /\ task.pc = "catch"
    /\ IF isTransientErrorThrows(task.error)
       THEN task' = [task EXCEPT !.thrown = ErrTypeError, !.pc = "thrown"]
       ELSE \E firebaseFails \in BOOLEAN :
              task' = [task EXCEPT
                         !.store = saveJob(JobWithError(task.job, task.error),
                                           firebaseFails),
                         !.firebaseFailed = @ \/ firebaseFails,
                         !.pc = "notify-failure"]
    /\ UNCHANGED <<serviceVars, backoff, limiter>>

\* lines 62-65: await notifyJobStatusChange(jobWithError); throw error
NotifyFailure(notifier) ==
    /\ task.pc = "notify-failure"
    /\ \E outcome \in notifier :
         task' = IF outcome = "ack"
                 THEN [task EXCEPT !.notified = task.store, !.thrown = task.error,
                                   !.pc = "thrown"]
                 ELSE [task EXCEPT !.thrown = ErrNotify, !.pc = "thrown"]
    /\ UNCHANGED <<serviceVars, backoff, limiter>>

\* jobQueueManager.js:89-110: the await of the processor settles; the catch
\* re-adds the job when nextJob.retries < (nextJob.maxRetries || 3)
QueueSettle ==
    /\ task.pc \in {"returned", "thrown"}
    /\ task' = [task EXCEPT
                  !.requeued = (task.pc = "thrown" /\ ShouldRequeue(task.job)),
                  !.pc = IF task.pc = "returned" THEN "settled-resolved"
                         ELSE "settled-rejected"]
    /\ UNCHANGED <<serviceVars, backoff, limiter>>

TaskNext ==
    \/ SaveProcessing
    \/ NotifyProcessing(Notifier)
    \/ Dispatch
    \/ Fetch
    \/ AnalyzeAndAssemble
    \/ SaveCompleted
    \/ NotifyCompleted(Notifier)
    \/ Catch
    \/ NotifyFailure(Notifier)
    \/ QueueSettle

TaskSpec == TaskInit /\ [][TaskNext]_vars

\* The same invocation with a notifier that can fail.
FaultyNotifierNext ==
    \/ SaveProcessing
    \/ NotifyProcessing(FaultyNotifier)
    \/ Dispatch
    \/ Fetch
    \/ AnalyzeAndAssemble
    \/ SaveCompleted
    \/ NotifyCompleted(FaultyNotifier)
    \/ Catch
    \/ NotifyFailure(FaultyNotifier)
    \/ QueueSettle

FaultyNotifierSpec == TaskInit /\ [][FaultyNotifierNext]_vars

----------------------------------------------------------------------------
(* A RateLimiter on its own: constructed at time 0, then calls of execute  *)
(* and the passing of time.  history is the record of the calls: when,     *)
(* the limiter before the call, and how the call went.                     *)

LimiterSteps == {1, 30000, 60000}

LimiterInit ==
    /\ InitState
    /\ backoff = NoBackoff
    /\ task = IdleTask
    /\ limiter \in { [rl |-> NewRateLimiter(options, 0), clock |-> 0,
                       advances |-> 0, inflight |-> 0, history |-> <<>>] :
                      options \in RateLimiterOptions }

\* limiter.execute(fn) at the current time, up to `await fn()`: the body
\* has no await before it, so it runs without interleaving; an admitted
\* caller's operation is then in flight (inflight counts them)
LimiterExecute ==
    /\ Len(limiter.history) < MaxCalls
    /\ LET call == Execute(limiter.rl, limiter.clock)
       IN  limiter' = [limiter EXCEPT
                         !.rl = call.rl,
                         !.inflight = IF call.outcome = "invoked" THEN @ + 1 ELSE @,
                         !.history = Append(@, [at |-> limiter.clock,
                                                before |-> limiter.rl,
                                                outcome |-> call.outcome,
                                                waitTime |-> call.waitTime])]
    /\ UNCHANGED <<serviceVars, backoff, task>>

\* the operation of an admitted caller settles: `return await fn()`
LimiterSettle ==
    /\ limiter.inflight > 0
    /\ limiter' = [limiter EXCEPT !.inflight = @ - 1]
    /\ UNCHANGED <<serviceVars, backoff, task>>

LimiterAdvance ==
    /\ limiter.advances < MaxAdvances
    /\ \E d \in LimiterSteps :
         limiter' = [limiter EXCEPT !.clock = @ + d, !.advances = @ + 1]
    /\ UNCHANGED <<serviceVars, backoff, task>>

LimiterNext == LimiterExecute \/ LimiterSettle \/ LimiterAdvance

LimiterSpec == LimiterInit /\ [][LimiterNext]_vars

----------------------------------------------------------------------------
(* Claims *)

InFlight == Len(running) > 0

\* The job the step handed to the processor, when it handed one over.
Started == Len(running') > Len(running)
StartedJob == running'[Len(running')].job

\* The step is the end of the only outstanding invocation.
Settling == Len(running) = 1 /\ running[1].pc = "settling" /\ Len(running') = 0
SettlingJob == running[1].job
SettlingError == running[1].error

InQueue(q, e) == \E k \in 1..Len(q) : q[k] = e

\* C1: at most one processor invocation is outstanding at any time, and a
\* tick that fires while a job is in flight starts nothing and leaves the
\* queue, contents and order, as it was.
C1_SingleFlight ==
    [][ /\ Len(running') <= 1
        /\ (InFlight /\ ev' \in {"tick-idle", "tick-notdue", "tick-started"}
              => /\ ev' = "tick-idle"
                 /\ running' = running
                 /\ jobQueue' = jobQueue) ]_vars

C1_Witness ==
    /\ ev = "tick-idle"
    /\ Len(running) = 1
    /\ isProcessing
    /\ Len(jobQueue) > 0

\* C2: the job a tick hands to the processor has the smallest scheduledFor
\* of the queue at that tick, and among the entries with that scheduledFor
\* it is the one added first.
C2_EarliestFirst ==
    [][ Started =>
          /\ InQueue(jobQueue, StartedJob)
          /\ \A k \in 1..Len(jobQueue) :
               /\ StartedJob.scheduledFor <= jobQueue[k].scheduledFor
               /\ (jobQueue[k].scheduledFor = StartedJob.scheduledFor
                     => StartedJob.seq <= jobQueue[k].seq) ]_vars

\* a tick has just chosen between two entries with the same scheduledFor
C2_Witness ==
    /\ ev = "tick-started"
    /\ Len(running) = 1
    /\ \E k \in 1..Len(jobQueue) :
         /\ jobQueue[k].scheduledFor = running[1].job.scheduledFor
         /\ jobQueue[k].seq > running[1].job.seq

\* C3: no job is handed to the processor before its scheduledFor, and a tick
\* whose earliest entry is not yet due starts nothing and removes nothing.
C3_NotBeforeDue ==
    [][ /\ (Started => StartedJob.scheduledFor <= now)
        /\ (ev' = "tick-notdue"
              => /\ running' = running
                 /\ Len(jobQueue') = Len(jobQueue)
                 /\ \A k \in 1..Len(jobQueue) : InQueue(jobQueue', jobQueue[k])) ]_vars

C3_Witness ==
    /\ ev = "tick-notdue"
    /\ Len(jobQueue) > 0
    /\ \A k \in 1..Len(jobQueue) : jobQueue[k].scheduledFor > now
    /\ Len(running) = 0

\* C4: a tick that starts a job leaves the queue equal to the previous queue
\* minus the one selected entry, also when entries share a job id.
C4_DequeuesOne ==
    [][ Started =>
          /\ Len(jobQueue') = Len(jobQueue) - 1
          /\ \A k \in 1..Len(jobQueue) :
               jobQueue[k].seq # StartedJob.seq => InQueue(jobQueue', jobQueue[k]) ]_vars

\* C5: a failed job is re-added only when retries < maxRetries (3 when not
\* given, 0 counting as 0); re-added, its retries is one more and its
\* scheduledFor is now + the backoff delay.
C5_RequeueBelowMax ==
    [][ Settling /\ ev' = "settle-requeued" =>
          /\ SettlingJob.retries # Undefined
          /\ SettlingJob.retries <
               (IF SettlingJob.maxRetries = Undefined THEN 3
                ELSE SettlingJob.maxRetries)
          /\ Len(jobQueue') = Len(jobQueue) + 1
          /\ LET added == jobQueue'[Len(jobQueue')]
             IN  /\ added.id = SettlingJob.id
                 /\ added.retries = SettlingJob.retries + 1
                 /\ \E jitter \in 0..999 :
                      added.scheduledFor =
                        now + calculateBackoff(SettlingJob.retries, jitter) ]_vars

\* C6: a job created without a retries field is re-enqueued when its first
\* attempt fails with a transient error.
C6_CreatedJobRetried ==
    [][ /\ Settling
        /\ isTransientError(SettlingError)
        /\ SettlingJob.retries = Undefined
        => /\ ev' = "settle-requeued"
           /\ Len(jobQueue') = Len(jobQueue) + 1 ]_vars

\* C7: a job that failed with a non-transient error is never re-enqueued by
\* the queue manager, whatever its retries and maxRetries.
C7_PermanentNotRequeued ==
    [][ /\ Settling
        /\ SettlingError # NoError
        /\ ~isTransientError(SettlingError)
        => /\ ev' = "settle-dropped"
           /\ jobQueue' = jobQueue ]_vars

\* C8: calculateBackoff(n) with jitter in [0, 1000) is 2^n * 1000 + jitter
\* when that is at most 60000 and 60000 otherwise: never above 60000, and
\* within [2^n * 1000, 2^n * 1000 + 1000] below the cap.
C8_BackoffBounds ==
    backoff.delay # Undefined =>
      LET n == backoff.retryCount
          uncapped == Pow2(n) * 1000 + backoff.jitter
      IN  /\ backoff.delay <= 60000
          /\ (uncapped <= 60000 => backoff.delay = uncapped)
          /\ (uncapped > 60000 => backoff.delay = 60000)
          /\ (Pow2(n) * 1000 + 1000 <= 60000
                => /\ backoff.delay >= Pow2(n) * 1000
                   /\ backoff.delay <= Pow2(n) * 1000 + 1000)

\* the cap has applied: 2^6 * 1000 exceeds 60000
C8_Witness ==
    /\ backoff.retryCount = 6
    /\ backoff.delay = 60000

LifecycleEdges ==
    { <<"pending", "processing">>, <<"processing", "completed">>,
      <<"processing", "retry">>, <<"processing", "failed">>,
      <<"pending", "cancelled">>, <<"retry", "pending">>,
      <<"failed", "pending">> }

\* C9: the recorded status of a job changes only along the lifecycle edges.
C9_StatusEdges ==
    [][ \A id \in JobIds :
          (saved[id] # NoJob /\ saved'[id].status # saved[id].status)
            => <<saved[id].status, saved'[id].status>> \in LifecycleEdges ]_vars

\* C10: when a job with retries = maxRetries fails with a transient error,
\* the status the task processor records is failed.
C10_ExhaustedIsFailed ==
    \A i \in 1..Len(running) :
      ( /\ running[i].pc = "settling"
        /\ isTransientError(running[i].error)
        /\ running[i].job.retries # Undefined
        /\ running[i].job.retries = running[i].job.maxRetries )
      => saved[running[i].job.id].status = "failed"

\* C11: a cancellation request for a job whose recorded status is not pending
\* (processing, completed, failed, retry, cancelled) is rejected and leaves
\* the stored job and its snapshot as they were; for a pending job it records
\* the status cancelled.
C11_CancelOnlyPending ==
    [][ \A id \in JobIds :
          (Cancel(id) /\ saved[id] # NoJob)
            => IF saved[id].status = "pending"
               THEN saved'[id].status = "cancelled"
               ELSE /\ saved' = saved
                    /\ jobStore' = jobStore ]_vars

\* C12: once the recorded status of a job is cancelled it stays cancelled,
\* and no later tick hands that job to the processor, also when the job was
\* in the queue when it was cancelled.
C12_CancelledStaysCancelled ==
    [][ \A id \in JobIds :
          (saved[id] # NoJob /\ saved[id].status = "cancelled")
            => /\ saved'[id].status = "cancelled"
               /\ (Started => StartedJob.id # id) ]_vars

\* C13: a manual retry changes something only when the job's status is
\* failed or retry, and then the stored job and its snapshot have status
\* pending, retries 0 and no error, and the job is appended to the queue;
\* for any other status neither the stored job nor the queue changes.
C13_ManualRetry ==
    [][ \A id \in JobIds :
          (ManualRetry(id) /\ jobStore[id] # NoJob)
            => \/ UNCHANGED <<jobStore, saved, jobQueue>>
               \/ /\ saved[id].status \in {"failed", "retry"}
                  /\ jobStore[id].status \in {"failed", "retry"}
                  /\ saved'[id].status = "pending"
                  /\ saved'[id].retries = 0
                  /\ saved'[id].error = NoError
                  /\ jobStore'[id].status = "pending"
                  /\ jobStore'[id].retries = 0
                  /\ jobStore'[id].error = NoError
                  /\ \A other \in JobIds \ {id} :
                       /\ saved'[other] = saved[other]
                       /\ jobStore'[other] = jobStore[other]
                  /\ Len(jobQueue') = Len(jobQueue) + 1
                  /\ SubSeq(jobQueue', 1, Len(jobQueue)) = jobQueue
                  /\ jobQueue'[Len(jobQueue')].id = id
                  /\ jobQueue'[Len(jobQueue')].status = "pending"
                  /\ jobQueue'[Len(jobQueue')].retries = 0 ]_vars

\* a retry of a failed job has just been accepted: the job is pending again
\* and its entry is the last of the queue
C13_Witness ==
    /\ Len(running) = 0
    /\ Len(jobQueue) = 1
    /\ LET id == jobQueue[1].id
       IN  /\ jobStore[id].status = "pending"
           /\ jobStore[id].retries = 0
           /\ saved[id].status = "pending"
           /\ saved[id].error = NoError

TaskFinished == task.pc \in {"settled-resolved", "settled-rejected"}
TaskPastStages ==
    task.pc \in {"save-completed", "notify-completed", "returned", "settled-resolved"}
TaskReturned == task.pc \in {"returned", "settled-resolved"}

\* C14: when processJob reaches the dispatch on the job type, and when the
\* fetch is about to start, the snapshot with status processing has been
\* persisted and notified.
C14_ProcessingFirst ==
    task.pc \in {"dispatch", "fetch"}
      => /\ task.store = updateJobStatus(task.job, "processing")
         /\ task.notified = updateJobStatus(task.job, "processing")

C14_Witness ==
    /\ task.pc = "fetch"
    /\ task.store.status = "processing"
    /\ task.notified.status = "processing"
    /\ task.fetched = "no"

\* C15: whenever processJob has thrown, the snapshot persisted and notified
\* last has status retry when the error is transient and failed otherwise,
\* carries the error's message, code and isTransient, and the error thrown
\* is the error the stage or the dispatch raised.
C15_FailureRecordedThenRethrown ==
    task.pc = "thrown"
      => /\ task.store.status =
              (IF isTransientError(task.error) THEN "retry" ELSE "failed")
         /\ task.store.error.message = task.error.message
         /\ task.store.error.code =
              (IF task.error.code = "none" THEN "UNKNOWN_ERROR" ELSE task.error.code)
         /\ task.store.error.isTransient = isTransientError(task.error)
         /\ task.notified = task.store
         /\ task.thrown = task.error

\* C16: with a store or a notifier that fails during processJob, a job
\* whose pipeline succeeded ends completed, is not marked failed or retry
\* and is not re-added, and a pdf job with a documentUrl gets to its fetch.
C16_CollaboratorFailureHarmless ==
    TaskFinished
      => /\ (task.fetched = "ok"
               => /\ task.pc = "settled-resolved"
                  /\ task.store.status = "completed"
                  /\ ~task.requeued)
         /\ (task.job.type = "pdf-processing" /\ task.job.documentUrl # <<>>
               => task.fetched # "no")

\* C17: when the fetch, the extraction and the analysis (if requested) of a
\* pdf-processing job succeed, processJob returns; the snapshot it persisted
\* last and returns has status completed and result.documentId equal to the
\* id of the fetched document, and the queue manager does not re-add the job.
C17_SuccessCompletes ==
    (task.fetched = "ok" /\ task.gemini \in {"ok", "skipped"})
      => /\ TaskPastStages
         /\ TaskReturned
              => /\ task.store.status = "completed"
                 /\ task.returned = task.store
                 /\ task.notified = task.store
                 /\ task.store.result.documentId = task.document.id
                 /\ task.document.id # <<>>
                 /\ ~task.requeued

\* a job whose Firestore write failed has completed all the same
C17_Witness ==
    /\ task.pc = "settled-resolved"
    /\ task.gemini = "ok"
    /\ task.firebaseFailed
    /\ task.store.status = "completed"
    /\ task.store.result.documentId = <<"archive", "tar">>

\* C18: when the analysis fails (rate limit or analysis error) the job still
\* completes: the snapshot persisted last has status completed, its result
\* has the extracted text and no geminiAnalysis field, and the job is not
\* re-added.
C18_AnalysisFailureTolerated ==
    task.gemini = "failed"
      => /\ TaskPastStages
         /\ TaskReturned
              => /\ task.store.status = "completed"
                 /\ task.store.error = NoErrorInfo
                 /\ task.store.result.extractedText = task.document.extractedText
                 /\ task.store.result.extractedText # "absent"
                 /\ "geminiAnalysis" \notin DOMAIN task.store.result
                 /\ ~task.requeued

C18_Witness ==
    /\ task.pc = "settled-resolved"
    /\ task.gemini = "failed"
    /\ task.store.status = "completed"
    /\ task.store.result.extractedText = "Simulated extraction"

\* the limiter as call i of the history left it
LimiterAfter(i) ==
    IF i < Len(limiter.history) THEN limiter.history[i + 1].before ELSE limiter.rl

\* C19: starting with a call that finds the bucket full, the calls made less
\* than refillRate after it invoke their operation as long as they are among
\* the first maxTokens, and the next one in that window fails with
\* RateLimitExceeded.
C19_BurstThenReject ==
    \A i \in 1..Len(limiter.history) :
      limiter.history[i].before.tokens = limiter.rl.maxTokens
        => \A j \in i..Len(limiter.history) :
             limiter.history[j].at - limiter.history[i].at < limiter.rl.refillRate
               => /\ (j - i < limiter.rl.maxTokens
                       => limiter.history[j].outcome = "invoked")
                  /\ (j - i = limiter.rl.maxTokens
                       => limiter.history[j].outcome = "RateLimitExceeded")

\* the five calls of a full geminiApiLimiter went through and the sixth,
\* later in the same window, was rejected
C19_Witness ==
    /\ limiter.rl.maxTokens = 5
    /\ Len(limiter.history) = 6
    /\ limiter.history[1].before.tokens = 5
    /\ limiter.history[5].outcome = "invoked"
    /\ limiter.history[6].outcome = "RateLimitExceeded"
    /\ limiter.history[6].at > limiter.history[1].at
    /\ limiter.history[6].at - limiter.history[1].at < limiter.rl.refillRate

\* C20: a call of execute that fails with RateLimitExceeded leaves tokens
\* and lastRefill as they were before the call.
C20_RejectionHasNoEffect ==
    \A i \in 1..Len(limiter.history) :
      limiter.history[i].outcome = "RateLimitExceeded"
        => /\ LimiterAfter(i).tokens = limiter.history[i].before.tokens
           /\ LimiterAfter(i).lastRefill = limiter.history[i].before.lastRefill

\* C21: a caller that is rejected, waits exactly the reported number of
\* seconds and calls execute again, with no call in between, is admitted.
C21_WaitThenAdmitted ==
    \A i \in 1..(Len(limiter.history) - 1) :
      ( /\ limiter.history[i].outcome = "RateLimitExceeded"
        /\ limiter.history[i + 1].at =
             limiter.history[i].at + limiter.history[i].waitTime * 1000 )
      => limiter.history[i + 1].outcome = "invoked"

\* C22: with calls of execute overlapping operations that are still running,
\* tokens stays within 0..maxTokens, a caller is admitted only when a token
\* was available after the refill, and every admitted caller takes exactly
\* one token, so no token admits two callers.
C22_AtomicConsume ==
    /\ limiter.rl.tokens \in 0..limiter.rl.maxTokens
    /\ \A i \in 1..Len(limiter.history) :
         LET call == limiter.history[i]
             available == Refill(call.before, call.at).tokens
         IN  /\ call.before.tokens \in 0..limiter.rl.maxTokens
             /\ (call.outcome = "invoked"
                   => /\ available >= 1
                      /\ LimiterAfter(i).tokens = available - 1)
             /\ (call.outcome = "RateLimitExceeded"
                   => /\ available = 0
                      /\ LimiterAfter(i).tokens = 0)

\* a third caller was rejected while the operations of the two callers that
\* took the two tokens were still running
C22_Witness ==
    /\ limiter.rl.maxTokens = 2
    /\ Len(limiter.history) = 3
    /\ limiter.inflight = 2
    /\ limiter.history[2].outcome = "invoked"
    /\ limiter.history[3].outcome = "RateLimitExceeded"
    /\ limiter.rl.tokens = 0

\* C23: addJob with no job or with a job without an id leaves the queue as
\* it was; with a job that has an id it appends exactly one entry with that
\* id, whose scheduledFor is the job's when it has one and the current time
\* otherwise, and leaves the earlier entries as they were.
C23_AddJob ==
    [][ /\ \A job \in InvalidJobs : AddJob(job) => jobQueue' = jobQueue
        /\ \A job \in JobInputs :
             AddJob(job)
               => /\ Len(jobQueue') = Len(jobQueue) + 1
                  /\ SubSeq(jobQueue', 1, Len(jobQueue)) = jobQueue
                  /\ jobQueue'[Len(jobQueue')].id = job.id
                  /\ jobQueue'[Len(jobQueue')].scheduledFor =
                       (IF job.scheduledFor = Undefined THEN now
                        ELSE job.scheduledFor) ]_vars

\* two adds at time 0: one with a scheduledFor of its own, then one without
C23_Witness ==
    /\ now = 0
    /\ ev = "other"
    /\ Len(jobQueue) = 2
    /\ jobQueue[1].scheduledFor = baseDelay
    /\ jobQueue[2].scheduledFor = 0
    /\ jobQueue[2].seq = 2

\* C24: while the queue manager is shut down (from shutdown() until the next
\* initialize) no tick fires and no job is handed to the processor, and a
\* shutdown() of a stopped queue manager changes nothing.
C24_ShutdownStopsTicks ==
    [][ checkInterval = "null"
          => /\ timers = 0
             /\ ~Tick
             /\ ~Started
             /\ (Shutdown => UNCHANGED <<jobQueue, isProcessing, taskProcessor,
                                         checkInterval, timers, running>>) ]_vars

\* shut down with a due job waiting in the queue
C24_Witness ==
    /\ Bootstrapped
    /\ checkInterval = "null"
    /\ ~isProcessing
    /\ Len(jobQueue) > 0
    /\ \E k \in 1..Len(jobQueue) : jobQueue[k].scheduledFor <= now

\* C25: every job the submission creates has status pending, whatever the
\* payload holds.
C25_CreatedPending ==
    [][ \A id \in JobIds :
          (jobStore[id] = NoJob /\ jobStore'[id] # NoJob)
            => jobStore'[id].status = "pending" ]_vars

\* C26: the id of a job never changes: the stored job, every snapshot
\* recorded for it, every queue entry and every job handed to the processor
\* carry the id of the job they were made from, and an automatic requeue
\* re-adds the job under the id it was started with.
C26_IdNeverChanges ==
    [][ /\ \A id \in JobIds :
             /\ (jobStore'[id] # NoJob => jobStore'[id].id = id)
             /\ (saved'[id] # NoJob => saved'[id].id = id)
             /\ (saved[id] # NoJob => saved'[id] # NoJob)
        /\ \A k \in 1..Len(jobQueue') :
             /\ jobQueue'[k].id \in JobIds
             /\ jobStore'[jobQueue'[k].id] # NoJob
        /\ \A i \in 1..Len(running') : running'[i].job.id \in JobIds
        /\ (Started => \E k \in 1..Len(jobQueue) : jobQueue[k].id = StartedJob.id)
        /\ (Settling /\ ev' = "settle-requeued"
              => jobQueue'[Len(jobQueue')].id = SettlingJob.id)
        /\ \A id \in JobIds :
             (ManualRetry(id) /\ Len(jobQueue') > Len(jobQueue))
               => jobQueue'[Len(jobQueue')].id = id ]_vars

\* a job created, retried by hand, processed, failed and re-added by the
\* queue manager, all under one id
C26_Witness ==
    /\ ev = "settle-requeued"
    /\ Len(jobQueue) = 1
    /\ LET id == jobQueue[1].id
       IN  /\ jobQueue[1].retries = 1
           /\ saved[id].id = id
           /\ saved[id].status \in {"retry", "failed"}
           /\ jobStore[id].id = id

\* C27: once processJob has recorded processing, completed, failed or retry
\* for a job, the status route returns that status for its id.
C27_StatusIsLastRecorded ==
    \A id \in JobIds :
      (saved[id] # NoJob /\ saved[id].status \in {"processing", "completed",
                                                  "failed", "retry"})
        => StatusResponse(id) = saved[id].status

\* C28: a job accepted by POST /api/v1/jobs is in the queue when the request
\* has been served.
C28_SubmittedIsQueued ==
    [][ \A id \in JobIds :
          (jobStore[id] = NoJob /\ jobStore'[id] # NoJob)
            => \E k \in 1..Len(jobQueue') : jobQueue'[k].id = id ]_vars

\* maxRetries as the claims read it: 3 when the job has none
MaxRetriesOf(job) == IF job.maxRetries = Undefined THEN 3 ELSE job.maxRetries

\* C29: every recorded snapshot and every queue entry with status retry has
\* retries <= maxRetries, and a job that fails with retries already at
\* maxRetries is recorded as failed.
C29_RetryWithinMax ==
    /\ \A id \in JobIds :
         (saved[id] # NoJob /\ saved[id].status = "retry"
            /\ saved[id].retries # Undefined)
           => saved[id].retries <= MaxRetriesOf(saved[id])
    /\ \A k \in 1..Len(jobQueue) :
         (jobQueue[k].status = "retry" /\ jobQueue[k].retries # Undefined)
           => jobQueue[k].retries <= MaxRetriesOf(jobQueue[k])
    /\ \A i \in 1..Len(running) :
         ( /\ running[i].pc = "settling"
           /\ running[i].error # NoError
           /\ running[i].job.retries # Undefined
           /\ running[i].job.retries >= MaxRetriesOf(running[i].job) )
         => saved[running[i].job.id].status = "failed"

\* C30: a queue entry's retries counts the times the job has been handed to
\* the processor; an entry waits for one more, so for a job enqueued with
\* retries 0 no entry has retries above maxRetries.
C30_AttemptsBounded ==
    \A k \in 1..Len(jobQueue) :
      (jobQueue[k].retries # Undefined /\ jobQueue[k].maxRetries # Undefined)
        => jobQueue[k].retries <= jobQueue[k].maxRetries

----------------------------------------------------------------------------
(* Classification of errors *)

\* the signatures that make an error transient
HasTransientSignature(error) ==
    \/ Includes(error.message, "Rate limit exceeded")
    \/ Includes(error.message, "timeout")
    \/ error.code \in {"ETIMEDOUT", "ECONNRESET", "ECONNREFUSED"}

\* C31: once the catch block of processJob has classified the error it
\* caught, the classification returned a boolean (it did not throw), and
\* the boolean is true exactly when the error's message carries the
\* rate-limit signature or timeout, or its code is one of ETIMEDOUT,
\* ECONNRESET and ECONNREFUSED.
C31_TransientExactly ==
    task.pc \in {"notify-failure", "thrown"}
      => /\ ~isTransientErrorThrows(task.error)
         /\ task.store.error.isTransient = HasTransientSignature(task.error)

\* the calls among the i-th to the j-th whose operation was invoked
Admitted(i, j) ==
    Cardinality({ k \in i..j : limiter.history[k].outcome = "invoked" })

\* C32: among the calls of execute made within any interval shorter than
\* refillRate, at most maxTokens have their operation invoked.
C32_WindowBound ==
    \A i \in 1..Len(limiter.history) :
      \A j \in i..Len(limiter.history) :
        limiter.history[j].at - limiter.history[i].at < limiter.rl.refillRate
          => Admitted(i, j) <= limiter.rl.maxTokens

\* a bucket of two was emptied, refilled a whole window later, emptied
\* again by two calls and rejected a third call in that second window
C32_Witness ==
    /\ limiter.rl.maxTokens = 2
    /\ Len(limiter.history) = 5
    /\ Admitted(1, 2) = 2
    /\ limiter.history[3].before.tokens = 0
    /\ limiter.history[3].at - limiter.history[2].at >= limiter.rl.refillRate
    /\ Admitted(3, 5) = 2
    /\ limiter.history[5].outcome = "RateLimitExceeded"
    /\ limiter.history[5].at - limiter.history[3].at < limiter.rl.refillRate

----------------------------------------------------------------------------
(* The queue under a timer that keeps firing: no shutdown, every job added *)
(* through the handle has an id of its own, processors terminate and time  *)
(* passes.                                                                 *)

\* the re-adds processNextJob can still make for a job: retries goes up by
\* one at each, until retries < (maxRetries || 3) fails
RemainingRequeues(job) ==
    IF job.retries = Undefined THEN 0
    ELSE IF job.retries < JsOr(job.maxRetries, DefaultMaxRetries)
         THEN JsOr(job.maxRetries, DefaultMaxRetries) - job.retries
         ELSE 0

RECURSIVE PendingRequeues(_)
PendingRequeues(q) ==
    IF q = <<>> THEN 0
    ELSE RemainingRequeues(Head(q)) + PendingRequeues(Tail(q))

\* an id no earlier addJob has used
FreshId(id) ==
    /\ saved[id] = NoJob
    /\ \A i \in 1..Len(jobQueue) : jobQueue[i].id # id
    /\ \A i \in 1..Len(running) : running[i].job.id # id

\* addJob(job) with an id of its own; finitely many: the adds stop while
\* the re-adds the jobs at hand can still cause have a number left
AddFreshJob(job) ==
    /\ FreshId(job.id)
    /\ nextSeq + RemainingRequeues(job) + PendingRequeues(jobQueue)
         + PendingRequeues([i \in 1..Len(running) |-> running[i].job]) <= MaxAdds
    /\ AddJob(job)

LiveNext ==
    \/ Initialize(TRUE)
    \/ \E job \in JobInputs : AddFreshJob(job)
    \/ Tick
    \/ \E i \in 1..Len(running) : Pipeline(i)
    \/ \E i \in 1..Len(running) : Settle(i)
    \/ AdvanceClock

\* setInterval keeps calling processNextJob, every await of processJob
\* settles, and the clock moves
LiveSpec ==
    /\ Init
    /\ [][LiveNext]_vars
    /\ WF_vars(Tick)
    /\ WF_vars(\E i \in 1..Len(running) : Pipeline(i))
    /\ WF_vars(\E i \in 1..Len(running) : Settle(i))
    /\ WF_vars(AdvanceClock)

\* the entry with insertion number s is in the queue and its time has come
DueInQueue(s) ==
    \E i \in 1..Len(jobQueue) :
      jobQueue[i].seq = s /\ jobQueue[i].scheduledFor <= now

\* the entry with insertion number s is with the processor
HandedOver(s) == \E i \in 1..Len(running) : running[i].job.seq = s

C35_OneEntryPerId ==
    \A i \in 1..Len(jobQueue) :
      \A j \in 1..Len(jobQueue) :
        jobQueue[i].id = jobQueue[j].id => i = j

\* C36: at most one timer is active before and after every step; an
\* initialize with a processor that is not callable changes neither the
\* processor nor the timer; an initialize while the timer runs sets the
\* processor and leaves the timer and everything else as they were.
C36_OneTimer ==
    [][ /\ timers \in 0..1
        /\ timers' \in 0..1
        /\ (timers' = 1) = (checkInterval' # "null")
        /\ Initialize(FALSE)
             => UNCHANGED <<taskProcessor, checkInterval, timers, jobQueue,
                            isProcessing, running>>
        /\ (Initialize(TRUE) /\ checkInterval # "null")
             => /\ taskProcessor' = "processJob"
                /\ UNCHANGED <<checkInterval, timers, jobQueue, isProcessing,
                               running>> ]_vars

\* the one timer is active with a job in flight and another waiting: a
\* state in which initialize (callable or not) and shutdown can be called
C36_Witness ==
    /\ timers = 1
    /\ checkInterval = "timer"
    /\ taskProcessor = "processJob"
    /\ Len(running) = 1
    /\ Len(jobQueue) = 1

====
